---- MODULE Spec2Model ----
(***************************************************************************)
(* A model of the numc NumPy benchmark harness: the seven benchmark        *)
(* scripts (bench/numpy_bench_*.py, examples/numpy_benchmark.py), their    *)
(* warmup/measurement timers, the try/except fallback from the             *)
(* output-buffer call form to the allocating call form, the metric         *)
(* derivation and the printing of result rows.                             *)
(*                                                                         *)
(* One behaviour is one run of one script's main().  The numeric kernel    *)
(* library and the clock are the environment: a kernel call returns or     *)
(* raises, and takes `tick` seconds of wall-clock time.                    *)
(*                                                                         *)
(* Arrays are filled uniformly (np.full / np.ones) and every kernel is     *)
(* elementwise on them, so an array is represented by the value of one     *)
(* element.  Integer elements are little-endian byte sequences of the      *)
(* dtype's width (two's complement), so that wrap-around is exact for      *)
(* every width; float elements are <<q>>, the value q/4, where that is     *)
(* exact; Opaque stands for a value this model does not compute (a         *)
(* transcendental result, random input data).                              *)
(***************************************************************************)
EXTENDS Integers, Sequences, FiniteSets, TLC

\* ------------------------------------------------------------------ bounds

\* The wall-clock seconds one kernel call may take: 0..MaxTick, drawn once
\* per run.  0 is a clock too coarse to see the timed loop.
MaxTick == 1

\* How many calls at the end of a warmup or timed loop the adversarial
\* environment (env = "any") may fail with an arbitrary exception: the latest
\* failures a loop can see.  The earliest one, at the first call, is the
\* rejection of out= that NumPy itself produces in every environment.
FaultWindow == 1

\* How many times gflops is evaluated on the same arguments.
MaxEvals == 2

\* ------------------------------------------------------- program constants

WARMUP == 20
ITERS == 200
EX_WARMUP == 10
EX_ITERS == 100
MM_WARMUP == 5
MM_ITERS == 20
MICROS == 1000000
CONTIG_SIZE == 1000000
SIDE == 1000
MM_N == 256

\* The dimensions and the times per call (microseconds) gflops is evaluated on.
GflopsDims == {1, MM_N}

GflopsTimes == {1, 1000}

\* ------------------------------------------------------------------ dtypes

ALL_DTYPES ==
    << "int8", "uint8", "int16", "uint16", "int32", "uint32",
       "int64", "uint64", "float32", "float64" >>

MM_ALL_DTYPES ==
    << "int8", "int16", "int32", "int64", "uint8", "uint16",
       "uint32", "uint64", "float32", "float64" >>

STRIDED_DTYPES == << "int32", "float32", "float64" >>

IsFloat(dt) == dt \in {"float32", "float64"}

IsInt(dt) == ~IsFloat(dt)

NBytes(dt) ==
    CASE dt \in {"int8", "uint8"} -> 1
      [] dt \in {"int16", "uint16"} -> 2
      [] dt \in {"int32", "uint32", "float32"} -> 4
      [] OTHER -> 8

\* ------------------------------------------------------------------ values

Opaque == << >>

RECURSIVE ToBytes(_, _)
ToBytes(n, k) == IF k = 0 THEN << >> ELSE << n % 256 >> \o ToBytes(n \div 256, k - 1)

\* dt(n) for a small non-negative n: an element of dtype dt.
Elem(dt, n) == IF IsFloat(dt) THEN << 4 * n >> ELSE ToBytes(n, NBytes(dt))

\* The element 1.5 (floats only), in quarters.
OneAndHalf == << 6 >>

TwoAndHalf == << 10 >>

FILL_VALUES(dt) ==
    CASE dt \in {"int8", "uint8"} -> Elem(dt, 3)
      [] dt \in {"int16", "uint16"} -> Elem(dt, 7)
      [] dt \in {"int32", "uint32", "int64", "uint64"} -> Elem(dt, 42)
      [] OTHER -> OneAndHalf

FILL_VALUES_EXP(dt) == IF IsFloat(dt) THEN OneAndHalf ELSE Elem(dt, 2)

BASE_VALUES(dt) == IF IsFloat(dt) THEN Elem(dt, 2) ELSE Elem(dt, 3)

EXP_VALUES(dt) == Elem(dt, 3)

RECURSIVE AddCarry(_, _, _, _)
AddCarry(x, y, i, c) ==
    IF i > Len(x) THEN << >>
    ELSE LET s == x[i] + y[i] + c
         IN  << s % 256 >> \o AddCarry(x, y, i + 1, s \div 256)

AddBytes(x, y) == AddCarry(x, y, 1, 0)

NotBytes(x) == [i \in 1..Len(x) |-> 255 - x[i]]

SubBytes(x, y) == AddCarry(x, NotBytes(y), 1, 1)

\* x * d * 256^sh for one byte d, truncated to Len(x) bytes.
RECURSIVE MulByte(_, _, _, _, _)
MulByte(x, d, sh, i, c) ==
    IF i > Len(x) THEN << >>
    ELSE IF i <= sh THEN << 0 >> \o MulByte(x, d, sh, i + 1, 0)
    ELSE LET p == x[i - sh] * d + c
         IN  << p % 256 >> \o MulByte(x, d, sh, i + 1, p \div 256)

RECURSIVE MulAcc(_, _, _)
MulAcc(x, y, j) ==
    IF j > Len(y) THEN [i \in 1..Len(x) |-> 0]
    ELSE AddBytes(MulByte(x, y[j], j - 1, 1, 0), MulAcc(x, y, j + 1))

MulBytes(x, y) == MulAcc(x, y, 1)

\* ------------------------------------------- the kernel library (NumPy)

IsSigned(dt) == dt \in {"int8", "int16", "int32", "int64"}

Zero(x) == [i \in 1..Len(x) |-> 0]

\* A byte sequence as a number, when it is below 256.
Small(y) == IF \A i \in 2..Len(y) : y[i] = 0 THEN y[1] ELSE -1

RECURSIVE PowBytes(_, _)
PowBytes(x, e) ==
    IF e = 0 THEN ToBytes(1, Len(x)) ELSE MulBytes(x, PowBytes(x, e - 1))

AbsBytes(dt, x) ==
    IF IsSigned(dt) /\ x[Len(x)] >= 128 THEN SubBytes(Zero(x), x) ELSE x

\* Floats, in quarters; a result that is not a multiple of 1/4, or that is
\* too large for this model's integers, is Opaque.
FloatLimit == 1000

Magnitude(q) == IF q < 0 THEN -q ELSE q

FloatMul(q1, q2) ==
    IF Magnitude(q1) > FloatLimit \/ Magnitude(q2) > FloatLimit \/ (q1 * q2) % 4 # 0
    THEN Opaque ELSE << (q1 * q2) \div 4 >>

FloatDiv(q1, q2) ==
    IF q2 = 0 \/ Magnitude(q1) > FloatLimit \/ (4 * q1) % q2 # 0
    THEN Opaque ELSE << (4 * q1) \div q2 >>

RECURSIVE FloatPow(_, _)
FloatPow(x, e) ==
    IF e = 0 THEN << 4 >>
    ELSE LET r == FloatPow(x, e - 1)
         IN  IF r = Opaque THEN Opaque ELSE FloatMul(x[1], r[1])

\* A library that rejects out= for every operation on integers.
ResultDtypeDiffersInts(op, dt) == IsInt(dt)

\* Whether NumPy computes op on dtype dt in a dtype other than dt: true
\* division and log/exp/sqrt of integers give floats.
ResultDtypeDiffers(op, dt) ==
    IsInt(dt) /\ op \in {"divide", "log", "exp", "sqrt"}

\* The element op gives for input element x and second operand y (kdim is
\* the inner dimension of a matmul of all-ones matrices).
KernelValue(op, dt, x, y, kdim) ==
    IF x = Opaque \/ (y = Opaque /\ op \in {"add", "subtract", "multiply",
                                             "divide", "floor_divide", "power"})
    THEN Opaque
    ELSE IF op = "matmul" THEN Elem(dt, kdim)
    ELSE IF IsInt(dt) THEN
        CASE op = "add" -> AddBytes(x, y)
          [] op = "subtract" -> SubBytes(x, y)
          [] op = "multiply" -> MulBytes(x, y)
          [] op = "floor_divide" -> IF Small(y) = 1 THEN x ELSE Opaque
          [] op = "power" -> IF Small(y) >= 0 THEN PowBytes(x, Small(y)) ELSE Opaque
          [] op = "abs" -> AbsBytes(dt, x)
          [] OTHER -> Opaque
    ELSE
        CASE op = "add" -> << x[1] + y[1] >>
          [] op = "subtract" -> << x[1] - y[1] >>
          [] op = "multiply" -> FloatMul(x[1], y[1])
          [] op = "divide" -> FloatDiv(x[1], y[1])
          [] op = "power" ->
                IF y[1] >= 0 /\ y[1] % 4 = 0 THEN FloatPow(x, y[1] \div 4) ELSE Opaque
          [] op = "abs" -> << Magnitude(x[1]) >>
          [] OTHER -> Opaque

\* NumPy's broadcasting rule: the shapes are aligned at their last dimension,
\* a missing dimension counts as 1, two dimensions are compatible when they
\* are equal or one of them is 1, and the result takes the larger of the two.
PadShape(sh, r) ==
    [i \in 1..r |-> IF i <= r - Len(sh) THEN 1 ELSE sh[i - (r - Len(sh))]]

Rank(s1, s2) == IF Len(s1) >= Len(s2) THEN Len(s1) ELSE Len(s2)

Broadcastable(s1, s2) ==
    LET r == Rank(s1, s2)
        p1 == PadShape(s1, r)
        p2 == PadShape(s2, r)
    IN  \A i \in 1..r : p1[i] = p2[i] \/ p1[i] = 1 \/ p2[i] = 1

BroadcastShape(s1, s2) ==
    LET r == Rank(s1, s2)
        p1 == PadShape(s1, r)
        p2 == PadShape(s2, r)
    IN  [i \in 1..r |-> IF p1[i] = 1 THEN p2[i] ELSE p1[i]]

\* The exceptions a kernel call may raise.  The first three are TypeError
\* and two of its NumPy subclasses (np.exceptions.DTypePromotionError: the
\* result type differs; _UFuncOutputCastingError: the output buffer cannot
\* take the result under the same_kind rule).
TypeErrors == {"TypeError", "DTypePromotionError", "UFuncOutputCastingError"}

Exceptions == TypeErrors \cup {"ValueError", "MemoryError"}

\* The two conditions the fallback is written for.
Recognized == {"DTypePromotionError", "UFuncOutputCastingError"}

\* ------------------------------------------------------- the case tables
\*
\* A row is one iteration of a benchmark function's loop: it measures its
\* cases one after the other, derives their metrics and prints one line.
\* alloc says whether the iteration allocates the arrays (bufs) itself; the
\* rows of examples/numpy_benchmark.py share the arrays run_benchmarks
\* allocates once per dtype, so only the first row of a dtype allocates.
\* A case is one call of a timer: the kernel op, the names of its input
\* array (src), of its second operand (arg, "" for none) and of the array
\* passed as out= (dst, "" for none; dst = src is an in-place case), the
\* except clause guarding the buffered loop (guard), and whether the caller
\* refills src before the timer (reset, with the fill value fill).

Buf(dt, v) == [val |-> v, dt |-> dt, writers |-> {}]

Case(timer, op, src, arg, dst, guard) ==
    [timer |-> timer, op |-> op, src |-> src, arg |-> arg, dst |-> dst,
     guard |-> guard, reset |-> FALSE, fill |-> Opaque]

Row(sec, dt, n, warm, iters, alloc, bufs, cases, shapes) ==
    [sec |-> sec, dt |-> dt, n |-> n, warm |-> warm, iters |-> iters,
     alloc |-> alloc, bufs |-> bufs, cases |-> cases, shapes |-> shapes]

BinaryOps == << "add", "subtract", "multiply", "divide" >>

SIZES == << 100, 1000, 10000, 100000, 1000000 >>

\* ---- bench/numpy_bench_elemwise.py

BinaryCases(ops) ==
    [i \in 1..Len(ops) |-> Case("time_binary", ops[i], "a", "b", "out", "ufunc")]

BinaryRow(sec, dt, n, va, vb, ops, shapes) ==
    Row(sec, dt, n, WARMUP, ITERS, TRUE,
        [a |-> Buf(dt, va), b |-> Buf(dt, vb), out |-> Buf(dt, Opaque)],
        BinaryCases(ops), shapes)

ElemContiguous(size) ==
    [i \in 1..Len(ALL_DTYPES) |->
        LET dt == ALL_DTYPES[i]
        IN  BinaryRow("elemwise.bench_contiguous", dt, size, FILL_VALUES(dt),
                      FILL_VALUES(dt), BinaryOps, << <<size>>, <<size>>, <<size>> >>)]

ElemStrided(rows, cols) ==
    [i \in 1..Len(STRIDED_DTYPES) |->
        LET dt == STRIDED_DTYPES[i]
        IN  BinaryRow("elemwise.bench_strided", dt, rows * cols, FILL_VALUES(dt),
                      FILL_VALUES(dt), BinaryOps,
                      << <<cols, rows>>, <<cols, rows>>, <<cols, rows>> >>)]

ElemBcastPattern(sec, a_shape, b_shape, out_shape, total) ==
    [i \in 1..Len(STRIDED_DTYPES) |->
        LET dt == STRIDED_DTYPES[i]
        IN  BinaryRow(sec, dt, total, FILL_VALUES(dt), FILL_VALUES(dt), BinaryOps,
                      << a_shape, b_shape, out_shape >>)]

\* A broadcast benchmark that declares the element count of its first operand.
ElemBroadcastOperandCount(M, N) ==
    ElemBcastPattern("elemwise.bench_broadcast.row", <<1, N>>, <<M, N>>, <<M, N>>, N)
    \o ElemBcastPattern("elemwise.bench_broadcast.outer", <<M, 1>>, <<1, N>>, <<M, N>>, M)
    \o ElemBcastPattern("elemwise.bench_broadcast.rank", <<N>>, <<M, N>>, <<M, N>>, N)

ElemBroadcast(M, N) ==
    ElemBcastPattern("elemwise.bench_broadcast.row", <<1, N>>, <<M, N>>, <<M, N>>, M * N)
    \o ElemBcastPattern("elemwise.bench_broadcast.outer", <<M, 1>>, <<1, N>>, <<M, N>>, M * N)
    \o ElemBcastPattern("elemwise.bench_broadcast.rank", <<N>>, <<M, N>>, <<M, N>>, M * N)

ElemScaling ==
    [i \in 1..Len(SIZES) |->
        BinaryRow("elemwise.bench_scaling", "float32", SIZES[i], OneAndHalf,
                  TwoAndHalf, << "add" >>, << <<SIZES[i]>>, <<SIZES[i]>>, <<SIZES[i]>> >>)]

ElemwiseMain ==
    ElemContiguous(CONTIG_SIZE) \o ElemStrided(SIDE, SIDE)
    \o ElemBroadcast(SIDE, SIDE) \o ElemScaling

\* ---- bench/numpy_bench_scalar.py

ScalarRow(sec, dt, n, va, vs, ops) ==
    Row(sec, dt, n, WARMUP, ITERS, TRUE,
        [a |-> Buf(dt, va), scalar |-> Buf(dt, vs), out |-> Buf(dt, Opaque)],
        [i \in 1..Len(ops) |-> Case("time_scalar", ops[i], "a", "scalar", "out", "ufunc")],
        << <<n>>, << >>, <<n>> >>)

ScalarOps(size) ==
    [i \in 1..Len(ALL_DTYPES) |->
        LET dt == ALL_DTYPES[i]
        IN  ScalarRow("scalar.bench_scalar_ops", dt, size, FILL_VALUES(dt),
                      Elem(dt, 2), BinaryOps)]

\* The in-place operation list without the floor_divide substitution.
InplaceOpsNoSwap(dt) == BinaryOps

\* For integers the in-place divide is floor_divide.
InplaceOps(dt) ==
    IF IsFloat(dt) THEN BinaryOps ELSE [BinaryOps EXCEPT ![4] = "floor_divide"]

ScalarInplaceOps(size) ==
    [i \in 1..Len(ALL_DTYPES) |->
        LET dt == ALL_DTYPES[i]
            ops == InplaceOps(dt)
        IN  Row("scalar.bench_scalar_inplace_ops", dt, size, WARMUP, ITERS, TRUE,
                [a |-> Buf(dt, FILL_VALUES(dt)), one |-> Buf(dt, Elem(dt, 1))],
                [j \in 1..Len(ops) |->
                    [Case("time_scalar_inplace", ops[j], "a", "one", "a", "ufunc")
                        EXCEPT !.reset = TRUE, !.fill = FILL_VALUES(dt)]],
                << <<size>>, << >>, <<size>> >>)]

ScalarScaling ==
    [i \in 1..Len(SIZES) |->
        ScalarRow("scalar.bench_scalar_scaling", "float32", SIZES[i], OneAndHalf,
                  Elem("float32", 2), << "add" >>)]

ScalarMain == ScalarOps(CONTIG_SIZE) \o ScalarInplaceOps(CONTIG_SIZE) \o ScalarScaling

\* ---- bench/numpy_bench_unary.py

UnaryNames == << "log", "exp", "abs", "sqrt" >>

UnaryInputs == << "a_log", "a_exp", "a_abs", "a_sqrt" >>

UnaryBufs(dt) ==
    [a_log |-> Buf(dt, FILL_VALUES(dt)), a_exp |-> Buf(dt, FILL_VALUES_EXP(dt)),
     a_abs |-> Buf(dt, FILL_VALUES(dt)), a_sqrt |-> Buf(dt, FILL_VALUES(dt)),
     out |-> Buf(dt, Opaque)]

UnaryOps(size) ==
    [i \in 1..Len(ALL_DTYPES) |->
        LET dt == ALL_DTYPES[i]
        IN  Row("unary.bench_unary_ops", dt, size, WARMUP, ITERS, TRUE, UnaryBufs(dt),
                [j \in 1..4 |->
                    Case("time_unary", UnaryNames[j], UnaryInputs[j], "", "out", "ufunc")],
                << <<size>>, << >>, <<size>> >>)]

UnaryInplaceOps(size) ==
    [i \in 1..Len(ALL_DTYPES) |->
        LET dt == ALL_DTYPES[i]
        IN  Row("unary.bench_unary_inplace_ops", dt, size, WARMUP, ITERS, TRUE,
                [a_log |-> Buf(dt, FILL_VALUES(dt)), a_exp |-> Buf(dt, FILL_VALUES_EXP(dt)),
                 a_abs |-> Buf(dt, FILL_VALUES(dt)), a_sqrt |-> Buf(dt, FILL_VALUES(dt))],
                [j \in 1..4 |->
                    Case("time_unary_inplace", UnaryNames[j], UnaryInputs[j], "",
                         UnaryInputs[j], "ufunc")],
                << <<size>>, << >>, <<size>> >>)]

UnaryScaling ==
    [i \in 1..Len(SIZES) |->
        Row("unary.bench_unary_scaling", "float32", SIZES[i], WARMUP, ITERS, TRUE,
            [a |-> Buf("float32", OneAndHalf), out |-> Buf("float32", Opaque)],
            << Case("time_unary", "sqrt", "a", "", "out", "ufunc") >>,
            << <<SIZES[i]>>, << >>, <<SIZES[i]>> >>)]

UnaryMain == UnaryOps(CONTIG_SIZE) \o UnaryInplaceOps(CONTIG_SIZE) \o UnaryScaling

\* ---- bench/numpy_bench_pow.py

PowContiguous(size) ==
    [i \in 1..Len(ALL_DTYPES) |->
        LET dt == ALL_DTYPES[i]
        IN  Row("pow.bench_contiguous", dt, size, WARMUP, ITERS, TRUE,
                [a |-> Buf(dt, BASE_VALUES(dt)), b |-> Buf(dt, EXP_VALUES(dt)),
                 out |-> Buf(dt, Opaque), a_ip |-> Buf(dt, BASE_VALUES(dt))],
                << Case("time_pow", "power", "a", "b", "out", "none"),
                   Case("time_pow_inplace", "power", "a_ip", "b", "a_ip", "none") >>,
                << <<size>>, <<size>>, <<size>> >>)]

\* The size sweep of the power script run from the largest size down.
PowScalingDescending ==
    [i \in 1..Len(SIZES) |->
        LET n == SIZES[Len(SIZES) + 1 - i]
        IN  Row("pow.bench_scaling", "float32", n, WARMUP, ITERS, TRUE,
                [a |-> Buf("float32", Elem("float32", 2)),
                 b |-> Buf("float32", Elem("float32", 3)),
                 out |-> Buf("float32", Opaque)],
                << Case("time_pow", "power", "a", "b", "out", "none") >>,
                << <<n>>, <<n>>, <<n>> >>)]

PowScaling ==
    [i \in 1..Len(SIZES) |->
        Row("pow.bench_scaling", "float32", SIZES[i], WARMUP, ITERS, TRUE,
            [a |-> Buf("float32", Elem("float32", 2)), b |-> Buf("float32", Elem("float32", 3)),
             out |-> Buf("float32", Opaque)],
            << Case("time_pow", "power", "a", "b", "out", "none") >>,
            << <<SIZES[i]>>, <<SIZES[i]>>, <<SIZES[i]>> >>)]

PowMain == PowContiguous(CONTIG_SIZE) \o PowScaling

\* ---- bench/numpy_bench_reduction.py

SumRows(sec, op, shape, total) ==
    [i \in 1..Len(ALL_DTYPES) |->
        LET dt == ALL_DTYPES[i]
        IN  Row(sec, dt, total, WARMUP, ITERS, TRUE, [a |-> Buf(dt, Elem(dt, 1))],
                << Case("reduction.bench", op, "a", "", "", "none") >>,
                << shape, << >>, << >> >>)]

ReductionScaling ==
    [i \in 1..Len(SIZES) |->
        Row("reduction.bench_scaling", "float32", SIZES[i], WARMUP, ITERS, TRUE,
            [a |-> Buf("float32", Elem("float32", 1))],
            << Case("reduction.bench", "sum", "a", "", "", "none") >>,
            << <<SIZES[i]>>, << >>, << >> >>)]

ReductionMain ==
    SumRows("reduction.bench_sum_full", "sum", <<CONTIG_SIZE>>, CONTIG_SIZE)
    \o SumRows("reduction.bench_sum_axis0", "sum_axis0", <<SIDE, SIDE>>, SIDE * SIDE)
    \o SumRows("reduction.bench_sum_axis_last", "sum_axis1", <<SIDE, SIDE>>, SIDE * SIDE)
    \o ReductionScaling

\* ---- bench/numpy_bench_matmul.py

\* (N, warmup, iters) of the square sweep.
SQUARE_SIZES ==
    << <<32, 50, 500>>, <<64, 20, 200>>, <<128, 10, 50>>, <<256, 5, 20>>, <<512, 2, 5>> >>

\* (M, K, N) of the shape variants.
SHAPES ==
    << <<512, 32, 512>>, <<512, 512, 512>>, <<32, 512, 32>>,
       <<256, 128, 512>>, <<1, 256, 256>>, <<256, 256, 1>> >>

MatmulRow(sec, dt, M, K, N, warm, iters, guard) ==
    Row(sec, dt, 2 * M * K * N, warm, iters, TRUE,
        [a |-> Buf(dt, Elem(dt, 1)), b |-> Buf(dt, Elem(dt, 1)), out |-> Buf(dt, Opaque)],
        << Case("matmul.bench", "matmul", "a", "b", "out", guard) >>,
        << <<M, K>>, <<K, N>>, <<M, N>> >>)

\* A square sweep that times every size with the counts of the other sections.
MatmulSquareScalingFixedCounts ==
    [i \in 1..Len(SQUARE_SIZES) |->
        LET s == SQUARE_SIZES[i]
        IN  MatmulRow("matmul.bench_square_scaling", "float32", s[1], s[1], s[1],
                      MM_WARMUP, MM_ITERS, "none")]

MatmulSquareScaling ==
    [i \in 1..Len(SQUARE_SIZES) |->
        LET s == SQUARE_SIZES[i]
        IN  MatmulRow("matmul.bench_square_scaling", "float32", s[1], s[1], s[1],
                      s[2], s[3], "none")]

MatmulDtypeComparison ==
    [i \in 1..Len(MM_ALL_DTYPES) |->
        MatmulRow("matmul.bench_dtype_comparison", MM_ALL_DTYPES[i], MM_N, MM_N, MM_N,
                  MM_WARMUP, MM_ITERS, "TypeError")]

MatmulShapeVariants ==
    [i \in 1..Len(SHAPES) |->
        LET s == SHAPES[i]
        IN  MatmulRow("matmul.bench_shape_variants", "float32", s[1], s[2], s[3],
                      MM_WARMUP, MM_ITERS, "none")]

MatmulMain == MatmulSquareScaling \o MatmulDtypeComparison \o MatmulShapeVariants

\* ---- examples/numpy_benchmark.py

\* The operations run_benchmarks times for one dtype, in order: (op, second
\* operand, out=).  Division is timed for floats only.
ExampleOps(dt) ==
    LET div(arg) == IF IsFloat(dt) THEN << <<"divide", arg, "out">> >> ELSE << >>
    IN  << <<"add", "b", "out">>, <<"subtract", "b", "out">>, <<"multiply", "b", "out">> >>
        \o div("b")
        \o << <<"add", "scalar", "out">>, <<"subtract", "scalar", "out">>,
              <<"multiply", "scalar", "out">> >>
        \o div("scalar")
        \o << <<"sum", "", "">>, <<"min", "", "">>, <<"max", "", "">>, <<"prod", "", "">>,
              <<"dot", "b", "">>, <<"mean", "", "">>, <<"std", "", "">>,
              <<"mean_axis0", "", "">>, <<"mean_axis1", "", "">>,
              <<"std_axis0", "", "">>, <<"std_axis1", "", "">> >>

RunBenchmarks(dt, N, iters) ==
    LET ops == ExampleOps(dt)
    IN  [j \in 1..Len(ops) |->
            Row("examples.run_benchmarks", dt, N, EX_WARMUP, iters, j = 1,
                [a |-> Buf(dt, Opaque), b |-> Buf(dt, Opaque),
                 out |-> Buf(dt, Opaque), scalar |-> Buf(dt, Elem(dt, 3))],
                << Case("examples.bench", ops[j][1], "a", ops[j][2], ops[j][3], "none") >>,
                << <<N>>, <<N>>, <<N>> >>)]

RECURSIVE ExamplesFrom(_)
ExamplesFrom(i) ==
    IF i > Len(ALL_DTYPES) THEN << >>
    ELSE RunBenchmarks(ALL_DTYPES[i], CONTIG_SIZE, EX_ITERS) \o ExamplesFrom(i + 1)

ExamplesMain == ExamplesFrom(1)

\* ---- the entry points

Scripts == {"elemwise", "scalar", "unary", "pow", "reduction", "matmul", "examples"}

Program ==
    [s \in Scripts |->
        CASE s = "elemwise" -> ElemwiseMain
          [] s = "scalar" -> ScalarMain
          [] s = "unary" -> UnaryMain
          [] s = "pow" -> PowMain
          [] s = "reduction" -> ReductionMain
          [] s = "matmul" -> MatmulMain
          [] OTHER -> ExamplesMain]

\* ------------------------------------------------------------------- state

VARIABLES
    script,     \* the script whose main() runs
    env,        \* "numpy": the library behaves as NumPy does; "any": it may raise anything
    tick,       \* the seconds one kernel call takes in this run
    pc,         \* "row", "case", "warmup", "timed", "derive", "print", "done", "aborted"
    row,        \* index of the current row in Program[script]
    cur,        \* the current row: the locals of the loop iteration
    scope,      \* the row at whose head the current arrays were allocated
    ci,         \* index of the current case in the row
    form,       \* the call form of the loop in progress: "buffered" (out=) or "allocating"
    fellBack,   \* whether the except clause of the current case was entered
    idx,        \* calls completed in the loop in progress
    calls,      \* calls of the current case, by form and phase
    now,        \* the clock: seconds since the current timer was entered
    t0,         \* the timer's start reading
    us,         \* the measurements of the current row, in case order
    metrics,    \* the derived metrics of the current row, in case order
    bufs,       \* the arrays of the current allocation
    raised,     \* the exception a kernel call of the current case raised, or "none"
    err,        \* the exception that ended the run, or "none"
    printed,    \* the number of rows printed
    stdout,     \* the last row printed
    gin,        \* the arguments (M, K, N, us) gflops is called with on the side
    gout        \* what those calls of gflops returned, in order

vars ==
    << script, env, tick, pc, row, cur, scope, ci, form, fellBack, idx, calls, now, t0,
       us, metrics, bufs, raised, err, printed, stdout, gin, gout >>

\* The variables of the benchmark run itself.
runvars ==
    << script, env, tick, pc, row, cur, scope, ci, form, fellBack, idx, calls, now, t0,
       us, metrics, bufs, raised, err, printed, stdout >>

Rows == Program[script]

CurRow == cur

CurCase == CurRow.cases[ci]

NoCalls == [bw |-> 0, bt |-> 0, aw |-> 0, at |-> 0]

NoBufs == [none |-> Buf("none", Opaque)]

NoRow == Row("none", "none", 0, 0, 0, FALSE, NoBufs, << >>, << >>)

NoOutput == [row |-> 0, us |-> << >>, metrics |-> << >>]

\* ------------------------------------------------------------ the helpers

RECURSIVE Gcd(_, _)
Gcd(a, b) == IF b = 0 THEN a ELSE Gcd(b, a % b)

\* The rational n/d (d > 0, n >= 0) in lowest terms.
Ratio(n, d) == LET g == Gcd(n, d) IN [num |-> n \div g, den |-> d \div g]

\* time_* with the factor 1e6 left out: seconds, not microseconds.
TimePerCallSeconds(start, end, iters) == Ratio(end - start, iters)

\* (t1 - t0) / iters * 1e6: seconds between the readings to microseconds per call.
TimePerCall(start, end, iters) == Ratio((end - start) * MICROS, iters)

\* size / u, in Mop/s.  Python raises ZeroDivisionError when u is 0.0.
Mops(n, u) == [num |-> n * u.den, den |-> u.num]

\* A gflops that remembers how many rows were printed.
GflopsStateful(M, K, N, u) ==
    [num |-> 2 * M * K * N * u.den, den |-> u.num * 1000 + printed]

\* gflops(M, K, N, us) = 2.0 * M * K * N / (us * 1e3)
Gflops(M, K, N, u) == [num |-> 2 * M * K * N * u.den, den |-> u.num * 1000]

IsMatmul(r) == r.cases[1].op = "matmul"

Metric(r, u) ==
    IF IsMatmul(r) THEN Gflops(r.shapes[1][1], r.shapes[1][2], r.shapes[2][2], u)
    ELSE Mops(r.n, u)

\* The call form a timer starts with: out= when the case has an output array.
InitialForm(c) == IF c.dst = "" THEN "allocating" ELSE "buffered"

\* except (TypeError, np.exceptions.DTypePromotionError,
\*         np._core._exceptions._UFuncOutputCastingError)   -- "ufunc"
\* except TypeError                                          -- "TypeError"
\* An except clause catches the classes it names and their subclasses.
Catches(guard, e) ==
    CASE guard = "ufunc" -> e \in TypeErrors
      [] guard = "TypeError" -> e \in TypeErrors
      [] OTHER -> FALSE

\* Arrays allocated once and kept for the rest of the run.
AllocateOnce(r, old) == IF old = NoBufs THEN r.bufs ELSE old

\* The arrays a row works on: its own, or the ones allocated before it.
Allocate(r, old) == IF r.alloc THEN r.bufs ELSE old

\* A caller that never refills the operand.
KeepOperand(c, b) == b

\* a[:] = v before the timer, where the caller does it.
ResetOperand(c, b) == IF c.reset THEN [b EXCEPT ![c.src].val = c.fill] ELSE b

\* A buffered call that computes on the operand as it was allocated.
WriteResultOfFreshOperand(c, r, k, b) ==
    LET y == IF c.arg = "" THEN Opaque ELSE b[c.arg].val
        v == KernelValue(c.op, b[c.src].dt, r.bufs[c.src].val, y,
                         IF Len(r.shapes[1]) = 2 THEN r.shapes[1][2] ELSE 0)
    IN  [b EXCEPT ![c.dst] = [val |-> v, dt |-> @.dt, writers |-> @.writers \cup {k}]]

\* A buffered call writes its result into the array passed as out=.
WriteResult(c, r, k, b) ==
    LET y == IF c.arg = "" THEN Opaque ELSE b[c.arg].val
        v == KernelValue(c.op, b[c.src].dt, b[c.src].val, y,
                         IF Len(r.shapes[1]) = 2 THEN r.shapes[1][2] ELSE 0)
    IN  [b EXCEPT ![c.dst] = [val |-> v, dt |-> @.dt, writers |-> @.writers \cup {k}]]

Count(c, f, p) ==
    CASE f = "buffered" /\ p = "warmup" -> [c EXCEPT !.bw = @ + 1]
      [] f = "buffered" /\ p = "timed" -> [c EXCEPT !.bt = @ + 1]
      [] f = "allocating" /\ p = "warmup" -> [c EXCEPT !.aw = @ + 1]
      [] OTHER -> [c EXCEPT !.at = @ + 1]

\* ------------------------------------------------------- the environment

LoopLen == IF pc = "warmup" THEN CurRow.warm ELSE CurRow.iters

InLoop == pc \in {"warmup", "timed"} /\ idx < LoopLen

\* NumPy rejects out= when the result dtype differs from the buffer's.
MustReject ==
    form = "buffered" /\ ResultDtypeDiffers(CurCase.op, bufs[CurCase.dst].dt)

InWindow == idx >= LoopLen - FaultWindow

MayRaise(e) ==
    \/ MustReject /\ e = "UFuncOutputCastingError"
    \/ e = "MemoryError"
    \/ env = "any" /\ InWindow /\ e \in Exceptions

\* ------------------------------------------------------------ the actions

\* An abort that prints what the row has measured so far.
AbortReporting(e) ==
    /\ pc' = "aborted"
    /\ err' = e
    /\ form' = "none"
    /\ fellBack' = FALSE
    /\ idx' = 0
    /\ calls' = NoCalls
    /\ now' = 0
    /\ t0' = 0
    /\ us' = << >>
    /\ metrics' = << >>
    /\ bufs' = NoBufs
    /\ printed' = printed + 1
    /\ stdout' = [row |-> row, us |-> us, metrics |-> metrics]
    /\ UNCHANGED << gin, gout, script, scope, env, tick, row, cur, ci >>

\* An exception leaves main(): the process exits, its frames are gone.
Abort(e) ==
    /\ pc' = "aborted"
    /\ err' = e
    /\ form' = "none"
    /\ fellBack' = FALSE
    /\ idx' = 0
    /\ calls' = NoCalls
    /\ now' = 0
    /\ t0' = 0
    /\ us' = << >>
    /\ metrics' = << >>
    /\ bufs' = NoBufs
    /\ UNCHANGED << gin, gout, script, scope, env, tick, row, cur, ci, printed, stdout >>

\* The head of a benchmark function's loop: the arrays of the iteration.
BeginRow ==
    /\ pc = "row"
    /\ cur' = Rows[row]
    /\ bufs' = Allocate(cur', bufs)
    /\ scope' = IF cur'.alloc THEN row ELSE scope
    /\ us' = << >>
    /\ metrics' = << >>
    /\ ci' = 1
    /\ pc' = "case"
    /\ UNCHANGED << gin, gout, script, env, tick, row, form, fellBack, idx, calls, now, t0,
                    raised, err, printed, stdout >>

\* The caller's preparation of a case and the entry into its timer.
BeginCase ==
    /\ pc = "case"
    /\ bufs' = ResetOperand(CurCase, bufs)
    /\ form' = InitialForm(CurCase)
    /\ fellBack' = FALSE
    /\ idx' = 0
    /\ calls' = NoCalls
    /\ now' = 0
    /\ t0' = 0
    /\ raised' = "none"
    /\ pc' = "warmup"
    /\ UNCHANGED << gin, gout, script, scope, env, tick, cur, row, ci, us, metrics, err, printed, stdout >>

\* One call of the kernel in the warmup or the timed loop returns.
KernelCallReturns ==
    /\ InLoop
    /\ ~MustReject
    /\ bufs' = IF form = "buffered" THEN WriteResult(CurCase, CurRow, << row, ci >>, bufs)
               ELSE bufs
    /\ idx' = idx + 1
    /\ calls' = Count(calls, form, pc)
    /\ now' = now + tick
    /\ UNCHANGED << gin, gout, script, scope, env, tick, pc, row, cur, ci, form, fellBack, t0, us, metrics,
                    raised, err, printed, stdout >>

\* An except clause that tries the buffered loop again.
EnterFallbackRetry ==
    /\ form' = "buffered"
    /\ fellBack' = FALSE
    /\ pc' = "warmup"
    /\ idx' = 0

\* An except clause that goes on with the loop the failed call was in.
EnterFallbackResume ==
    /\ form' = "allocating"
    /\ fellBack' = TRUE
    /\ pc' = pc
    /\ idx' = idx + 1

\* What the except clause does first: the allocating loop starts over.
EnterFallback ==
    /\ form' = "allocating"
    /\ fellBack' = TRUE
    /\ pc' = "warmup"
    /\ idx' = 0

\* An except clause that also guards the loop it starts.
KernelCallCaughtAgain ==
    /\ InLoop
    /\ CurCase.dst # ""
    /\ \E e \in Exceptions :
        /\ MayRaise(e)
        /\ Catches(CurCase.guard, e)
        /\ raised' = e
    /\ EnterFallback
    /\ calls' = Count(calls, form, pc)
    /\ now' = now + tick
    /\ UNCHANGED << gin, gout, script, scope, env, tick, cur, row, ci, t0, us, metrics, bufs, err, printed, stdout >>

\* One call raises inside the try block, and the except clause catches it.
KernelCallCaught ==
    /\ InLoop
    /\ form = "buffered"
    /\ ~fellBack
    /\ \E e \in Exceptions :
        /\ MayRaise(e)
        /\ Catches(CurCase.guard, e)
        /\ raised' = e
    /\ EnterFallback
    /\ calls' = Count(calls, form, pc)
    /\ now' = now + tick
    /\ UNCHANGED << gin, gout, script, scope, env, tick, cur, row, ci, t0, us, metrics, bufs, err, printed, stdout >>

\* One call raises and nothing catches it.
KernelCallPropagates ==
    /\ InLoop
    /\ \E e \in Exceptions :
        /\ MayRaise(e)
        /\ ~(form = "buffered" /\ ~fellBack /\ Catches(CurCase.guard, e))
        /\ raised' = e
        /\ Abort(e)

\* t0 = time.perf_counter(), after the warmup loop.
ReadT0 ==
    /\ pc = "warmup"
    /\ idx = CurRow.warm
    /\ t0' = now
    /\ pc' = "timed"
    /\ idx' = 0
    /\ UNCHANGED << gin, gout, script, scope, env, tick, cur, row, ci, form, fellBack, calls, now, us, metrics,
                    bufs, raised, err, printed, stdout >>

\* A timer return that loses the measurement.
ReadT1Forget ==
    /\ pc = "timed"
    /\ idx = CurRow.iters
    /\ us' = us
    /\ IF ci < Len(CurRow.cases)
       THEN ci' = ci + 1 /\ pc' = "case"
       ELSE ci' = ci /\ pc' = "derive"
    /\ UNCHANGED << gin, gout, script, scope, env, tick, cur, row, form, fellBack, idx, calls, now, t0,
                    metrics, bufs, raised, err, printed, stdout >>

\* t1 = time.perf_counter() after the timed loop, and the timer's return.
ReadT1 ==
    /\ pc = "timed"
    /\ idx = CurRow.iters
    /\ us' = Append(us, TimePerCall(t0, now, CurRow.iters))
    /\ IF ci < Len(CurRow.cases)
       THEN ci' = ci + 1 /\ pc' = "case"
       ELSE ci' = ci /\ pc' = "derive"
    /\ UNCHANGED << gin, gout, script, scope, env, tick, cur, row, form, fellBack, idx, calls, now, t0, metrics,
                    bufs, raised, err, printed, stdout >>

\* mops = [size / u for u in us], or the metric inside the print's f-string.
DeriveMetrics ==
    /\ pc = "derive"
    /\ \A i \in 1..Len(us) : us[i].num # 0
    /\ metrics' = [i \in 1..Len(us) |-> Metric(CurRow, us[i])]
    /\ pc' = "print"
    /\ UNCHANGED << gin, gout, script, scope, env, tick, cur, row, ci, form, fellBack, idx, calls, now, t0, us,
                    bufs, raised, err, printed, stdout >>

\* A zero time per call: the division raises ZeroDivisionError.
DeriveFails ==
    /\ pc = "derive"
    /\ \E i \in 1..Len(us) : us[i].num = 0
    /\ raised' = raised
    /\ Abort("ZeroDivisionError")

\* print_row / print: the line of the row, and on to the next row.
PrintRow ==
    /\ pc = "print"
    /\ printed' = printed + 1
    /\ stdout' = [row |-> row, us |-> us, metrics |-> metrics]
    /\ row' = row + 1
    /\ pc' = IF row < Len(Rows) THEN "row" ELSE "done"
    /\ UNCHANGED << gin, gout, script, scope, env, tick, cur, ci, form, fellBack, idx, calls, now, t0, us,
                    metrics, bufs, raised, err >>

Next ==
    \/ BeginRow
    \/ BeginCase
    \/ KernelCallPropagates
    \/ KernelCallCaught
    \/ KernelCallReturns
    \/ ReadT0
    \/ ReadT1
    \/ DeriveMetrics
    \/ DeriveFails
    \/ PrintRow

InitRun(e) ==
    /\ script \in Scripts
    /\ env = e
    /\ tick \in 0..MaxTick
    /\ pc = "row"
    /\ row = 1
    /\ cur = NoRow
    /\ scope = 0
    /\ ci = 1
    /\ form = "none"
    /\ fellBack = FALSE
    /\ idx = 0
    /\ calls = NoCalls
    /\ now = 0
    /\ t0 = 0
    /\ us = << >>
    /\ metrics = << >>
    /\ bufs = NoBufs
    /\ raised = "none"
    /\ err = "none"
    /\ printed = 0
    /\ stdout = NoOutput

\* No call of gflops on the side.
NoSideCalls == gin = << >> /\ gout = << >>

Init == InitRun("numpy") /\ NoSideCalls

InitAny == InitRun("any") /\ NoSideCalls

\* A run against the library as NumPy behaves.
Spec == Init /\ [][Next]_vars

\* A run against a library that may raise any exception.
SpecAny == InitAny /\ [][Next]_vars

\* gflops called on its own, any number of times up to MaxEvals, while the
\* matmul script runs and measures: the arguments are drawn once, each
\* dimension from GflopsDims and the time per call, in whole microseconds,
\* from GflopsTimes.
GflopsInit ==
    /\ InitRun("any")
    /\ script = "matmul"
    /\ gin \in [M : GflopsDims, K : GflopsDims, N : GflopsDims,
                 us : [num : GflopsTimes, den : {1}]]
    /\ gout = << >>

EvalGflops ==
    /\ Len(gout) < MaxEvals
    /\ gout' = Append(gout, Gflops(gin.M, gin.K, gin.N, gin.us))
    /\ UNCHANGED << gin, runvars >>

GflopsNext == Next \/ EvalGflops

GflopsSpec == GflopsInit /\ [][GflopsNext]_vars

\* The run as its single thread executes it: the interpreter always takes
\* the next step, and every kernel call returns or raises.
FairSpec == Init /\ [][Next]_vars /\ WF_vars(Next)

\* -------------------------------------------------------------- observers

\* The scripts that end with a size sweep, and the sweeps' sections.
SweepScripts == {"elemwise", "scalar", "unary", "pow", "reduction"}

SweepSecs ==
    {"elemwise.bench_scaling", "scalar.bench_scalar_scaling", "unary.bench_unary_scaling",
     "pow.bench_scaling", "reduction.bench_scaling"}

\* A timer has just returned to its caller: the locals of the call (calls,
\* t0, now, form, fellBack) still hold what it did.
Returned == (pc = "case" /\ ci > 1) \/ pc = "derive"

\* The case whose timer returned last.
LastCase == IF pc = "derive" THEN cur.cases[ci] ELSE cur.cases[ci - 1]

\* The calls made in the call form the timer is (or ended) in.
FinalWarm == IF form = "allocating" THEN calls.aw ELSE calls.bw

FinalTimed == IF form = "allocating" THEN calls.at ELSE calls.bt

TotalCalls == calls.bw + calls.bt + calls.aw + calls.at

\* x * y modulo m on integers, by doubling (m <= 2^16).
RECURSIVE MulMod(_, _, _)
MulMod(x, y, m) ==
    IF y = 0 THEN 0
    ELSE (2 * MulMod(x, y \div 2, m) + (IF y % 2 = 1 THEN x ELSE 0)) % m

\* b^e modulo m on integers, by squaring.
RECURSIVE PowMod(_, _, _)
PowMod(b, e, m) ==
    IF e = 0 THEN 1 % m
    ELSE LET h == PowMod(b, e \div 2, m)
             h2 == MulMod(h, h, m)
         IN  IF e % 2 = 1 THEN MulMod(h2, b, m) ELSE h2

\* np.power(a, 3, out=a) applied k times to the odd element x of a w-bit
\* integer array, m = 2^w: NumPy's integer power wraps modulo 2^w, so the
\* k-fold cube is x^(3^k) modulo m, and the exponent of an odd x may be
\* reduced modulo m/2, the number of odd residues.
CubeFold(x, k, m) == PowMod(x, PowMod(3, k, m \div 2), m)

Modulus(dt) == IF NBytes(dt) = 1 THEN 256 ELSE 65536

\* The timer is inside one of the two in-place timers without a reset.
InPlaceCase ==
    /\ pc \in {"warmup", "timed"}
    /\ cur.cases[ci].timer \in {"time_pow_inplace", "time_unary_inplace"}

\* A step in which a kernel call returns.
CallReturns == InLoop /\ pc' = pc /\ idx' = idx + 1

\* Inside a timer's loops.
InTimer == pc \in {"warmup", "timed"}

\* The calls of the running measurement made with out=, and without.
BufferedCalls == calls.bw + calls.bt

AllocatingCalls == calls.aw + calls.at

\* ------------------------------------------------------------- properties

\* C1: when a timer returns, the unit of work has run exactly W times before
\* the start reading and exactly I times between the start and the end
\* reading (every other call of the case lies before the start reading), and
\* the value returned is (end - start) / I in microseconds: with every call
\* taking tick seconds, tick * 10^6.
TimerContract ==
    Returned =>
        /\ FinalWarm = cur.warm
        /\ FinalTimed = cur.iters
        /\ t0 = (TotalCalls - cur.iters) * tick
        /\ now = t0 + cur.iters * tick
        /\ us[Len(us)] = [num |-> tick * MICROS, den |-> 1]

TimerContractWitness ==
    /\ Returned
    /\ script = "reduction"
    /\ tick = 1
    /\ calls.aw = WARMUP
    /\ calls.at = ITERS
    /\ t0 = WARMUP
    /\ us[Len(us)] = [num |-> MICROS, den |-> 1]

\* C2: when a buffered call, in the warmup or in the timed loop and at
\* whatever index, fails with one of the two recognised conditions, the timer
\* returns only after exactly W untimed and then I timed allocating calls, and
\* the start reading it uses is taken after every buffered call and every
\* allocating warmup call, the end reading I allocating calls later.
FallbackRerunsFullLoop ==
    (Returned /\ fellBack /\ raised \in Recognized) =>
        /\ calls.aw = cur.warm
        /\ calls.at = cur.iters
        /\ t0 = (calls.bw + calls.bt + calls.aw) * tick
        /\ now = t0 + cur.iters * tick
        /\ us[Len(us)] = [num |-> tick * MICROS, den |-> 1]

FallbackRerunsFullLoopWitness ==
    /\ Returned
    /\ fellBack
    /\ raised = "DTypePromotionError"
    /\ tick = 1
    /\ calls.bw = cur.warm
    /\ calls.bt = cur.iters
    /\ calls.aw = cur.warm
    /\ calls.at = cur.iters
    /\ t0 = 2 * cur.warm + cur.iters

\* C3: an allocating re-run is started only for a failure that is one of the
\* two recognised conditions; any other failure of a buffered call is not
\* recovered.
OnlyRecognizedRecovered == fellBack => raised \in Recognized

\* C4: a case's timer returns through the fallback exactly when the result
\* dtype of its (operation, dtype) pair differs from the buffer's, and a case
\* of a timer without a fallback of its own (guard "none", and the in-place
\* scalar timer) never meets a call that rejects its buffer.
FallbackIffDtypeDiffers ==
    /\ Returned => (fellBack <=> ResultDtypeDiffers(LastCase.op, cur.dt))
    /\ (InLoop /\ (CurCase.guard = "none" \/ CurCase.timer = "time_scalar_inplace"))
            => ~MustReject

FallbackIffDtypeDiffersWitness ==
    /\ Returned
    /\ cur.sec = "elemwise.bench_contiguous"
    /\ cur.dt = "int64"
    /\ LastCase.op = "divide"
    /\ fellBack
    /\ calls = [bw |-> 1, bt |-> 0, aw |-> WARMUP, at |-> ITERS]

\* C5 as stated: at the start of every timed call of the in-place scalar
\* category the operand holds its fill value.
ResetBeforeEveryTimedCall ==
    (pc = "timed" /\ idx < cur.iters /\ CurCase.timer = "time_scalar_inplace")
        => bufs[CurCase.src].val = CurCase.fill

\* C5, amended: the operand holds its fill value at the entry of every
\* operation's timer (and not at every call): within one operation the drift
\* accumulates, so that after k in-place additions of 1 an integer operand
\* holds fill + k modulo 2^width.
ResetBeforeEveryOperation ==
    /\ (pc = "warmup" /\ idx = 0 /\ ~fellBack /\ CurCase.timer = "time_scalar_inplace")
            => bufs[CurCase.src].val = FILL_VALUES(cur.dt)
    /\ (pc \in {"warmup", "timed"} /\ ~fellBack /\ IsInt(cur.dt)
            /\ CurCase.timer = "time_scalar_inplace" /\ CurCase.op = "add")
            => bufs[CurCase.src].val =
                  ToBytes(Small(FILL_VALUES(cur.dt)) + calls.bw + calls.bt, NBytes(cur.dt))

ResetBeforeEveryOperationWitness ==
    /\ pc = "warmup"
    /\ idx = 0
    /\ CurCase.timer = "time_scalar_inplace"
    /\ CurCase.op = "subtract"
    /\ cur.dt = "int8"
    /\ bufs.a.val = Elem("int8", 3)
    /\ bufs.a.writers = {<< row, 1 >>}

\* C6: every time per call a timer returns is strictly positive, and no
\* metric derivation divides by zero.
PositiveTimePerCall ==
    /\ \A i \in 1..Len(us) : us[i].num > 0
    /\ err # "ZeroDivisionError"

\* C7 as stated: a kernel call of a case happens only when the metric of
\* every earlier case of the row has been derived.
DerivedBeforeNextCase == InLoop => Len(metrics) = ci - 1

\* C7, amended: a kernel call of a case happens only when every earlier case
\* of the row has returned its measurement and every earlier row has been
\* derived and printed; the metrics of a row are derived together, after the
\* measurement of its last case, and not case by case.
MeasuredBeforeNextCase ==
    /\ InLoop => (Len(us) = ci - 1 /\ metrics = << >> /\ printed = row - 1)
    /\ pc = "print" => (Len(us) = Len(cur.cases) /\ Len(metrics) = Len(cur.cases))

MeasuredBeforeNextCaseWitness ==
    /\ InLoop
    /\ row = 2
    /\ ci = 2
    /\ Len(us) = 1
    /\ metrics = << >>
    /\ printed = 1

\* C8 as stated: no array is written by more than one case.
BuffersPrivateToCase ==
    \A b \in DOMAIN bufs : Cardinality(bufs[b].writers) <= 1

\* A kernel call of a case that does not work in place leaves its inputs as
\* they were.
InputsKept ==
    (InLoop /\ CurCase.dst # CurCase.src /\ pc' # "aborted") =>
        /\ bufs'[CurCase.src] = bufs[CurCase.src]
        /\ CurCase.arg # "" => bufs'[CurCase.arg] = bufs[CurCase.arg]

\* C8, amended: an array is written only by cases of the loop iteration that
\* allocated it (the operations measured for one dtype or one size share its
\* output and in-place arrays), and the calls of a case that does not work in
\* place leave its inputs unchanged.
BuffersPrivateToAllocation ==
    /\ [](\A b \in DOMAIN bufs : \A k \in bufs[b].writers : scope <= k[1] /\ k[1] <= row)
    /\ [][InputsKept]_vars

BuffersPrivateToAllocationWitness ==
    /\ pc = "timed"
    /\ idx = cur.iters
    /\ cur.sec = "elemwise.bench_contiguous"
    /\ row = 2
    /\ ci = 2
    /\ bufs.out.writers = {<< 2, 1 >>, << 2, 2 >>}
    /\ bufs.a = cur.bufs.a
    /\ bufs.b = cur.bufs.b

\* C9: a time is appended to a row's results only by a timer that made all W
\* warmup and all I timed calls of its final call form; a row is printed only
\* with the times and metrics of all its cases; and when a failure propagates,
\* nothing has been printed for the row of the failing case and nothing
\* happens afterwards.
NoPartialResult ==
    /\ [](pc = "aborted" =>
            (printed = row - 1 /\ stdout.row = row - 1 /\ us = << >> /\ metrics = << >>))
    /\ [][(us' # us /\ us' # << >>) =>
            (FinalWarm = cur.warm /\ FinalTimed = cur.iters /\ us' = Append(us, us'[Len(us')]))]_vars
    /\ [][stdout' # stdout =>
            (stdout'.us = us /\ stdout'.row = row
                /\ Len(us) = Len(cur.cases) /\ Len(metrics) = Len(cur.cases))]_vars
    /\ [][pc # "aborted"]_vars

NoPartialResultWitness ==
    /\ pc = "aborted"
    /\ err = "ValueError"
    /\ row = 2
    /\ ci = 3
    /\ printed = 1
    /\ stdout.row = 1

\* C10: the contiguous int32 add case of the element-wise script runs on
\* 1,000,000 elements with 20 warmup and 200 timed calls; while it runs it is
\* in the buffered call form and has made no allocating call; when its timer
\* returns it has made exactly 20 buffered calls before the start reading and
\* 200 between the readings, and did not fall back.
Int32AddContiguous ==
    LET it == cur.sec = "elemwise.bench_contiguous" /\ cur.dt = "int32"
    IN  /\ (it /\ pc \in {"warmup", "timed"} /\ CurCase.op = "add") =>
                /\ cur.n = 1000000 /\ cur.warm = 20 /\ cur.iters = 200
                /\ form = "buffered"
                /\ calls.aw = 0 /\ calls.at = 0
        /\ (it /\ Returned /\ LastCase.op = "add") =>
                /\ calls = [bw |-> 20, bt |-> 200, aw |-> 0, at |-> 0]
                /\ ~fellBack
                /\ t0 = 20 * tick
                /\ now = 220 * tick

Int32AddContiguousWitness ==
    /\ cur.sec = "elemwise.bench_contiguous"
    /\ cur.dt = "int32"
    /\ Returned
    /\ LastCase.op = "add"
    /\ tick = 1
    /\ calls.bt = 200
    /\ ~fellBack

\* C11: every run ends, either done with all the rows of its script printed
\* and no error, or aborted with the error that propagated; and no loop of a
\* case runs more than its count: a case makes at most W + I buffered calls
\* and at most W + I allocating calls.
RunTerminates ==
    /\ <>(pc \in {"done", "aborted"})
    /\ [](pc \in {"warmup", "timed"} =>
            (/\ calls.bw <= cur.warm /\ calls.bt <= cur.iters
             /\ calls.aw <= cur.warm /\ calls.at <= cur.iters))
    /\ [](pc = "done" => (printed = Len(Rows) /\ row = Len(Rows) + 1 /\ err = "none"))
    /\ [](pc = "aborted" => err # "none")

RunTerminatesWitness ==
    /\ pc = "done"
    /\ script = "unary"
    /\ tick = 1
    /\ err = "none"
    /\ printed = 2 * Len(ALL_DTYPES) + Len(SIZES)

SizeSweepInOrder ==
    /\ SIZES = << 100, 1000, 10000, 100000, 1000000 >>
    /\ (pc = "case" /\ ci = 1 /\ cur.sec \in SweepSecs) =>
            LET k == row - (Len(Rows) - Len(SIZES))
            IN  /\ script \in SweepScripts
                /\ k \in 1..Len(SIZES)
                /\ cur.n = SIZES[k]
                /\ cur.shapes[1] = << SIZES[k] >>
                /\ Len(cur.cases) = 1
                /\ printed = row - 1
    /\ (pc = "case" /\ ci = 1 /\ script \in SweepScripts /\ cur.sec \notin SweepSecs)
            => row <= Len(Rows) - Len(SIZES)
    /\ (pc = "done" /\ script \in SweepScripts) =>
            (cur.sec \in SweepSecs /\ stdout.row = Len(Rows) /\ cur.n = SIZES[Len(SIZES)])

SizeSweepInOrderWitness ==
    /\ pc = "timed"
    /\ idx = cur.iters
    /\ cur.sec = "pow.bench_scaling"
    /\ cur.n = 1000000
    /\ printed = row - 1
    /\ row = Len(ALL_DTYPES) + Len(SIZES)

\* C14: in the run of the element-wise script, every measurement of the
\* three broadcast patterns works on operands of the shapes (1,1000) and
\* (1000,1000), (1000,1) and (1,1000), (1000,) and (1000,1000); its output
\* array has the shape (1000,1000), which is the broadcast of the two operand
\* shapes; and the element count it declares, and divides by the time to get
\* the metric, is 1000 * 1000 = 1,000,000.
BroadcastShapes ==
    LET a == cur.shapes[1]
        b == cur.shapes[2]
        out == cur.shapes[3]
        bcast == {"elemwise.bench_broadcast.row", "elemwise.bench_broadcast.outer",
                  "elemwise.bench_broadcast.rank"}
    IN  cur.sec \in bcast =>
            /\ cur.sec = "elemwise.bench_broadcast.row" =>
                    (a = << 1, 1000 >> /\ b = << 1000, 1000 >>)
            /\ cur.sec = "elemwise.bench_broadcast.outer" =>
                    (a = << 1000, 1 >> /\ b = << 1, 1000 >>)
            /\ cur.sec = "elemwise.bench_broadcast.rank" =>
                    (a = << 1000 >> /\ b = << 1000, 1000 >>)
            /\ out = << 1000, 1000 >>
            /\ Broadcastable(a, b)
            /\ BroadcastShape(a, b) = out
            /\ cur.n = 1000000
            /\ cur.n = out[1] * out[2]
            /\ pc = "print" =>
                    \A i \in 1..Len(metrics) :
                        metrics[i] = [num |-> 1000000 * us[i].den, den |-> us[i].num]

BroadcastShapesWitness ==
    /\ pc = "print"
    /\ cur.sec = "elemwise.bench_broadcast.outer"
    /\ cur.shapes = << << 1000, 1 >>, << 1, 1000 >>, << 1000, 1000 >> >>
    /\ tick = 1
    /\ Len(metrics) = 4
    /\ metrics[1] = [num |-> 1000000, den |-> 1000000]

\* C15: the square sweep of the matmul script is its first five
\* measurements, of N = 32, 64, 128, 256, 512 in this order, each with NxN
\* operands and output; the (warmup, iterations) pairs of the table are
\* pairwise distinct and positive, and both counts strictly decrease as N
\* grows; the timer of a size is entered with the table's counts for that
\* size, and when it returns it has made exactly that many warmup and timed
\* calls.
SquareSweepCounts ==
    LET T == SQUARE_SIZES
        inRow == pc \in {"case", "warmup", "timed", "derive", "print"}
        square == cur.sec = "matmul.bench_square_scaling"
    IN  /\ [i \in 1..Len(T) |-> T[i][1]] = << 32, 64, 128, 256, 512 >>
        /\ \A i \in 1..Len(T) : T[i][2] > 0 /\ T[i][3] > 0
        /\ \A i, j \in 1..Len(T) : i # j => << T[i][2], T[i][3] >> # << T[j][2], T[j][3] >>
        /\ \A i \in 1..(Len(T) - 1) : T[i][2] > T[i + 1][2] /\ T[i][3] > T[i + 1][3]
        /\ (inRow /\ script = "matmul") => (square <=> row <= Len(T))
        /\ (inRow /\ square) =>
                /\ script = "matmul"
                /\ row \in 1..Len(T)
                /\ cur.shapes = << << T[row][1], T[row][1] >>, << T[row][1], T[row][1] >>,
                                   << T[row][1], T[row][1] >> >>
                /\ cur.warm = T[row][2]
                /\ cur.iters = T[row][3]
                /\ printed = row - 1
                /\ pc \in {"warmup", "timed"} =>
                        (calls.bw <= T[row][2] /\ calls.bt <= T[row][3])
                /\ pc = "timed" => calls.bw = T[row][2]
                /\ pc \in {"derive", "print"} =>
                        (calls.bw = T[row][2] /\ calls.bt = T[row][3])

SquareSweepCountsWitness ==
    /\ pc = "print"
    /\ script = "matmul"
    /\ cur.sec = "matmul.bench_square_scaling"
    /\ row = 5
    /\ cur.shapes[3] = << 512, 512 >>
    /\ calls.bw = 2
    /\ calls.bt = 5
    /\ printed = 4

\* C16: inside the in-place power timer and the in-place unary timer the
\* operand is changed by nothing but the buffered calls: every buffered call
\* that returns replaces the operand by the kernel's result on the operand
\* the previous call left, and every other step of the timer, short of the
\* abort of the run, leaves it as it is.  The in-place power timer makes buffered calls only, 20 before the
\* start reading and 200 after it; its operand starts at the base value, for
\* the 8-bit and 16-bit integer dtypes it is after k calls the k-fold cube of
\* 3 modulo 2^w (after two calls the 8-bit operand is 227, not 19683), and
\* for every integer dtype it differs from the base 3 when the timed loop
\* starts.
InPlaceOperandDrifts ==
    /\ [][(InPlaceCase /\ pc' # "aborted") =>
            LET c == cur.cases[ci]
                y == IF c.arg = "" THEN Opaque ELSE bufs[c.arg].val
            IN  IF CallReturns /\ form = "buffered"
                THEN bufs'[c.src].val = KernelValue(c.op, cur.dt, bufs[c.src].val, y, 0)
                ELSE bufs'[c.src] = bufs[c.src]]_vars
    /\ []((InPlaceCase /\ cur.cases[ci].timer = "time_pow_inplace") =>
            LET k == calls.bw + calls.bt
                x == bufs["a_ip"].val
            IN  /\ form = "buffered"
                /\ calls.aw = 0 /\ calls.at = 0
                /\ calls.bw <= 20 /\ calls.bt <= 200
                /\ pc = "timed" => calls.bw = 20
                /\ k = 0 => x = BASE_VALUES(cur.dt)
                /\ IsInt(cur.dt) =>
                        /\ bufs["b"].val = Elem(cur.dt, 3)
                        /\ k = 0 => x = Elem(cur.dt, 3)
                        /\ NBytes(cur.dt) <= 2 =>
                                x = ToBytes(CubeFold(3, k, Modulus(cur.dt)), NBytes(cur.dt))
                        /\ (NBytes(cur.dt) = 1 /\ k = 2) =>
                                (x = << 227 >> /\ x # ToBytes(19683, 2))
                        /\ (pc = "timed" /\ idx = 0) => x # Elem(cur.dt, 3))

InPlaceOperandDriftsWitness ==
    /\ pc = "timed"
    /\ idx = 200
    /\ script = "pow"
    /\ cur.dt = "int16"
    /\ cur.cases[ci].timer = "time_pow_inplace"
    /\ calls = [bw |-> 20, bt |-> 200, aw |-> 0, at |-> 0]
    /\ bufs["a_ip"].val = ToBytes(51523, 2)

\* C17: the calls of one measurement are either all in the buffered form, or
\* all in the allocating form (a timer without out=), or k buffered calls
\* that return, 0 <= k < W+I, then one buffered call that fails with a
\* recognised exception, then allocating calls only, which start over with
\* the warmup.  The fallback is entered at most once per measurement: after it
\* the counts of buffered calls never change, and a call that does not return
\* ends the run with its exception.
FallbackAtMostOnce ==
    /\ [](InTimer =>
            /\ (form = "buffered") <=> (cur.cases[ci].dst # "" /\ ~fellBack)
            /\ (form = "allocating") <=> (cur.cases[ci].dst = "" \/ fellBack)
            /\ form = "buffered" =>
                    (AllocatingCalls = 0 /\ calls.bw <= cur.warm /\ calls.bt <= cur.iters)
            /\ (form = "allocating" /\ ~fellBack) => BufferedCalls = 0
            /\ fellBack =>
                    /\ cur.cases[ci].guard # "none"
                    /\ raised \in TypeErrors
                    /\ BufferedCalls >= 1 /\ BufferedCalls <= cur.warm + cur.iters
                    /\ calls.bw <= cur.warm /\ calls.bt <= cur.iters
                    /\ calls.bt > 0 => calls.bw = cur.warm
            /\ calls.aw <= cur.warm /\ calls.at <= cur.iters
            /\ (pc = "timed" /\ form = "allocating") => calls.aw = cur.warm
            /\ (pc = "timed" /\ idx = cur.iters) =>
                    IF form = "buffered"
                    THEN BufferedCalls = cur.warm + cur.iters
                    ELSE AllocatingCalls = cur.warm + cur.iters)
    /\ [][(InTimer /\ ~fellBack /\ fellBack') =>
            /\ form = "buffered" /\ form' = "allocating"
            /\ BufferedCalls >= 0 /\ BufferedCalls < cur.warm + cur.iters
            /\ calls'.bw + calls'.bt = BufferedCalls + 1
            /\ calls'.aw = 0 /\ calls'.at = 0
            /\ pc' = "warmup" /\ idx' = 0
            /\ raised' \in TypeErrors]_vars
    /\ [][(InTimer /\ form = "allocating" /\ pc' # "aborted" /\ pc' \in {"warmup", "timed"}) =>
            /\ form' = "allocating"
            /\ fellBack' = fellBack
            /\ calls'.bw = calls.bw /\ calls'.bt = calls.bt]_vars
    /\ [][(InTimer /\ form = "allocating" /\ idx < LoopLen /\ ~CallReturns) =>
            (pc' = "aborted" /\ err' = raised' /\ err' \in Exceptions)]_vars

FallbackAtMostOnceWitness ==
    /\ pc = "timed"
    /\ idx = cur.iters
    /\ fellBack
    /\ form = "allocating"
    /\ calls = [bw |-> 20, bt |-> 200, aw |-> 20, at |-> 200]
    /\ raised \in TypeErrors

====
